---- MODULE Spec2Model ----
(***************************************************************************)
(* Model of backend/rag.py (MiniRAG): text normalisation, corpus building, *)
(* TF-IDF index build, ranked search, hot reload, as called from the       *)
(* threadpool endpoints of backend/app.py.                                 *)
(*                                                                         *)
(* Python strings are sequences of one-character strings.  A Python value  *)
(* is a tagged record: Str(s), Lst(xs) or NoneV.  A dict is a function     *)
(* whose DOMAIN is the set of keys present.                                *)
(***************************************************************************)
EXTENDS Integers, Sequences, FiniteSets, TLC

\* ---------------------------------------------------------------- bounds
MaxLen == 5
MaxTopk == 3
MaxScore == 2
MaxReloads == 2

\* ------------------------------------------------------- python values
NoneV == [t |-> "none", v |-> <<>>]
Str(s) == [t |-> "str", v |-> s]
Lst(xs) == [t |-> "list", v |-> xs]

\* bool(x) for None, str, list
Truthy(x) == x.t # "none" /\ x.v # <<>>

\* dict.get(key, default)
Get(d, key, default) == IF key \in DOMAIN d THEN d[key] ELSE default

\* ------------------------------------------------------------ characters
WS == {" ", "\t"}
WordChars == {"a", "b", "c", "d", "e", "n", "o", "p", "s", "z", "1", "2", "A", "B", "N"}

LowerChar(c) ==
  IF c = "A" THEN "a" ELSE IF c = "B" THEN "b" ELSE IF c = "N" THEN "n" ELSE c

\* str.lower()
Lower(s) == [i \in 1..Len(s) |-> LowerChar(s[i])]

\* position of the first ">" at or after i, 0 when there is none
RECURSIVE FirstGt(_, _)
FirstGt(s, i) ==
  IF i > Len(s) THEN 0
  ELSE IF s[i] = ">" THEN i
  ELSE FirstGt(s, i + 1)

\* re.sub(r"<[^>]+>", " ", s), scanning from position i
RECURSIVE SubTagsFrom(_, _)
SubTagsFrom(s, i) ==
  IF i > Len(s) THEN <<>>
  ELSE IF s[i] = "<" /\ FirstGt(s, i + 1) > i + 1
       THEN <<" ">> \o SubTagsFrom(s, FirstGt(s, i + 1) + 1)
       ELSE <<s[i]>> \o SubTagsFrom(s, i + 1)

\* position of the first "<" or ">" at or after i, 0 when there is none
RECURSIVE FirstAngle(_, _)
FirstAngle(s, i) ==
  IF i > Len(s) THEN 0
  ELSE IF s[i] \in {"<", ">"} THEN i
  ELSE FirstAngle(s, i + 1)

\* the substitution with the tag pattern <[^<>]+> instead
RECURSIVE SubInnerTagsFrom(_, _)
SubInnerTagsFrom(s, i) ==
  IF i > Len(s) THEN <<>>
  ELSE IF /\ s[i] = "<" /\ FirstAngle(s, i + 1) > i + 1
          /\ s[FirstAngle(s, i + 1)] = ">"
       THEN <<" ">> \o SubInnerTagsFrom(s, FirstAngle(s, i + 1) + 1)
       ELSE <<s[i]>> \o SubInnerTagsFrom(s, i + 1)

SubInnerTags(s) == SubInnerTagsFrom(s, 1)

SubTags(s) == SubTagsFrom(s, 1)

\* re.sub(r"\s+", " ", s)
RECURSIVE CollapseWS(_)
CollapseWS(s) ==
  IF s = <<>> THEN <<>>
  ELSE IF Head(s) \in WS
       THEN IF Len(s) > 1 /\ s[2] \in WS
            THEN CollapseWS(<<" ">> \o Tail(Tail(s)))
            ELSE <<" ">> \o CollapseWS(Tail(s))
       ELSE <<Head(s)>> \o CollapseWS(Tail(s))

RECURSIVE LStrip(_)
LStrip(s) == IF s # <<>> /\ Head(s) \in WS THEN LStrip(Tail(s)) ELSE s

RECURSIVE RStrip(_)
RStrip(s) ==
  IF s # <<>> /\ s[Len(s)] \in WS THEN RStrip(SubSeq(s, 1, Len(s) - 1)) ELSE s

\* str.strip()
Strip(s) == RStrip(LStrip(s))

\* _norm_text on a str argument
NormStr(s) == Lower(Strip(CollapseWS(SubTags(s))))

\* _norm_text(x) raises TypeError: re.sub on a truthy non-string
NormRaises(x) == Truthy(x) /\ x.t # "str"

\* _norm_text(x) when it does not raise
_norm_text(x) == IF ~Truthy(x) THEN <<>> ELSE NormStr(x.v)

\* sep.join(parts)
RECURSIVE Join(_, _)
Join(sep, parts) ==
  IF parts = <<>> THEN <<>>
  ELSE IF Len(parts) = 1 THEN parts[1]
  ELSE parts[1] \o sep \o Join(sep, Tail(parts))

\* str(x) of a scalar element: a str is itself, None is "None"
PyStr(x) == IF x.t = "none" THEN <<"N", "o", "n", "e">> ELSE x.v

\* _join_list(xs)
_join_list(xs) ==
  IF ~Truthy(xs) THEN <<>>
  ELSE IF xs.t = "list"
       THEN Join(<<" ">>, [i \in 1..Len(xs.v) |-> NormStr(PyStr(xs.v[i]))])
       ELSE NormStr(xs.v)

\* ------------------------------------------------------- corpus builder
SEP == <<" ", "|", " ">>

EmptyStr == Str(<<>>)
EmptyLst == Lst(<<>>)

StrFields == {"name", "description", "directions", "warnings", "brand", "price_text"}

\* " > ".join(xs) raises TypeError unless xs is a str or a list of str
JoinRaises(xs) ==
  \/ xs.t = "none"
  \/ xs.t = "list" /\ \E i \in 1..Len(xs.v) : xs.v[i].t # "str"

\* the product branch of _build_corpus raises for record p
ProductDocRaises(p) ==
  \/ \E f \in StrFields : NormRaises(Get(p, f, EmptyStr))
  \/ JoinRaises(Get(p, "category_path", EmptyLst))
  \/ NormRaises(Get(p, "category_path", EmptyStr))

\* the document text of product p (when the branch does not raise)
ProductDoc(p) ==
  Join(SEP, << _norm_text(Get(p, "name", EmptyStr)),
               _norm_text(Get(p, "description", EmptyStr)),
               _join_list(Get(p, "benefits", EmptyLst)),
               _norm_text(Get(p, "directions", EmptyStr)),
               _norm_text(Get(p, "warnings", EmptyStr)),
               _join_list(Get(p, "tags", EmptyLst)),
               _norm_text(Get(p, "brand", EmptyStr)),
               _norm_text(Get(p, "price_text", EmptyStr)),
               _norm_text(Get(p, "category_path", EmptyStr)) >>)

ProductMetaById(p) == [type |-> "product", id |-> Get(p, "id", NoneV)]

ProductMeta(p) == [type |-> "product", id |-> Get(p, "sku", NoneV)]

\* [i.get("sku") for i in c.get("items", [])]
ItemSkus(c) ==
  LET items == Get(c, "items", EmptyLst)
  IN  Lst([i \in 1..Len(items.v) |-> Get(items.v[i], "sku", NoneV)])

ComboDocRaises(c) ==
  \E f \in {"name", "protocol", "notes"} : NormRaises(Get(c, f, EmptyStr))

ComboDoc(c) ==
  Join(SEP, << _norm_text(Get(c, "name", EmptyStr)),
               _join_list(Get(c, "targets", EmptyLst)),
               _norm_text(Get(c, "protocol", EmptyStr)),
               _join_list(ItemSkus(c)),
               _norm_text(Get(c, "notes", EmptyStr)) >>)

ComboMeta(c) == [type |-> "combo", id |-> Get(c, "id", NoneV)]

SymptomDocRaises(s) ==
  \E f \in {"symptom", "protocol"} : NormRaises(Get(s, f, EmptyStr))

SymptomDoc(s) ==
  Join(SEP, << _norm_text(Get(s, "symptom", EmptyStr)),
               _join_list(Get(s, "keywords", EmptyLst)),
               _join_list(Get(s, "triage_questions", EmptyLst)),
               _join_list(Get(s, "red_flags", EmptyLst)),
               _norm_text(Get(s, "protocol", EmptyStr)) >>)

SymptomMeta(s) == [type |-> "symptom", id |-> Get(s, "id", NoneV)]

\* ---------------------------------------------------------- vector index
\* tokens of the default token_pattern (?u)\b\w\w+\b : maximal runs of word
\* characters of length at least two; cur is the run being read
RECURSIVE TokensFrom(_, _)
TokensFrom(s, cur) ==
  IF s = <<>> THEN (IF Len(cur) >= 2 THEN <<cur>> ELSE <<>>)
  ELSE IF Head(s) \in WordChars
       THEN TokensFrom(Tail(s), Append(cur, Head(s)))
       ELSE (IF Len(cur) >= 2 THEN <<cur>> ELSE <<>>) \o TokensFrom(Tail(s), <<>>)

Tokens(doc) == TokensFrom(Lower(doc), <<>>)

\* ngram_range=(1, 2): the unigrams and the space-joined bigrams
Terms(toks) ==
  {toks[i] : i \in 1..Len(toks)}
    \cup {toks[i] \o <<" ">> \o toks[i + 1] : i \in 1..(Len(toks) - 1)}

DocsVocab(docs) == UNION {Terms(Tokens(docs[i])) : i \in 1..Len(docs)}

\* fit_transform(docs) raises ValueError("empty vocabulary")
FitRaises(docs) == DocsVocab(docs) = {}

NoMatrix == [isNone |-> TRUE, vocab |-> {}, rows |-> <<>>]

\* the matrix fit_transform(docs) returns: one row per document
FitMatrix(docs) ==
  [isNone |-> FALSE, vocab |-> DocsVocab(docs),
   rows |-> [i \in 1..Len(docs) |-> Tokens(docs[i])]]

\* the object self.vectorizer names: None, a new TfidfVectorizer, a fitted one.
\* No frame keeps a reference to it across steps, so the one object the
\* attribute names is the only one whose state matters.
NoVectorizer == [k |-> "none", vocab |-> {}]
Unfitted == [k |-> "unfitted", vocab |-> {}]
Fitted(docs) == [k |-> "fitted", vocab |-> DocsVocab(docs)]

\* ------------------------------------------------- data the loader can yield
Txt(c1, c2) == Str(<<c1, c2>>)

P1 == [sku |-> Txt("p", "1"), name |-> Txt("a", "b")]
P1b == [sku |-> Txt("p", "1"), name |-> Txt("c", "d")]
P2 == [sku |-> Txt("p", "2"), name |-> Str(<<"<", "b", ">", "A", "B">>)]
P4 == [name |-> Str(<<"a">>)]
C1r == [id |-> Txt("c", "1"), name |-> Txt("c", "d"),
        items |-> Lst(<< [sku |-> Txt("p", "1")] >>)]
S1 == [id |-> Txt("s", "1"), symptom |-> Txt("d", "e"),
       keywords |-> Lst(<<Txt("a", "b")>>)]

ProductLists == { <<>>, <<P1, P2>>, <<P1b, P1>>, <<P4>> }
ComboLists == { <<>>, <<C1r>> }
SymptomLists == { <<>>, <<S1>> }

\* what requests.get(PRODUCTS_URL).json() can do: raise (timeout, HTTP error,
\* body that is not JSON), or yield a list, or a dict with or without "items"
UrlResponses ==
  {[k |-> "fail", v |-> <<>>], [k |-> "dict_noitems", v |-> <<>>]}
    \cup {[k |-> "list", v |-> pl] : pl \in ProductLists}
    \cup {[k |-> "dict", v |-> pl] : pl \in ProductLists}

\* what a local JSON file can be: absent, unparsable, or a list
LocalFiles(lists) ==
  {[k |-> "missing", v |-> <<>>], [k |-> "corrupt", v |-> <<>>]}
    \cup {[k |-> "list", v |-> l] : l \in lists}

\* _load_json_local
LocalRaises(file) == file.k = "corrupt"
_load_json_local(file) == IF file.k = "missing" THEN <<>> ELSE file.v

\* _load_products_from_url, PRODUCTS_URL being configured
UrlFalls(resp) == resp.k = "fail"
_load_products_from_url(resp, file) ==
  IF UrlFalls(resp) THEN _load_json_local(file) ELSE resp.v

Queries == { <<"a", "b">>, <<" ", "\t">>, <<"A", "B", " ", "d", "e">>, <<"n", "o">> }
TopkInputs == (0 - 1)..MaxTopk
Keys == { Txt("p", "1"), Txt("p", "2"), Txt("c", "1"), Txt("s", "1"), Txt("z", "z") }

\* ------------------------------------------------------------------ state
VARIABLES products, combos, symptoms, index_docs, meta, vectorizer, matrix,
          built, nloads, th, lastL, lastOk, fx, fy, fpc

vars == <<products, combos, symptoms, index_docs, meta, vectorizer, matrix,
          built, nloads, th, lastL, lastOk, fx, fy, fpc>>

shared == <<products, combos, symptoms, index_docs, meta, vectorizer, matrix>>
harness == <<fx, fy, fpc>>

Workers == {1, 2}
NoQv == [vocab |-> {}, terms |-> {}]
NoL == [p |-> <<>>, c |-> <<>>, s |-> <<>>]

\* a worker that is not executing a request
IdleT ==
  [op |-> "idle", pc |-> "idle", failed |-> FALSE, loaded |-> FALSE, L |-> NoL,
   docs |-> <<>>, meta |-> <<>>, nonEmpty |-> FALSE, X |-> NoMatrix,
   q |-> <<>>, k |-> 0, qv |-> NoQv, M |-> NoMatrix, ometa |-> <<>>,
   sims |-> <<>>, idxs |-> <<>>, key |-> NoneV, out |-> <<>>, exc |-> ""]

Quiet == \A u \in Workers : th[u].pc = "idle"

\* MiniRAG.__init__ up to the call of _load_all, made at import by worker 1
EngineInit ==
  /\ products = <<>> /\ combos = <<>> /\ symptoms = <<>>
  /\ index_docs = <<>> /\ meta = <<>>
  /\ vectorizer = NoVectorizer /\ matrix = NoMatrix
  /\ nloads = 0
  /\ lastL = NoL /\ lastOk = FALSE

Init ==
  /\ EngineInit
  /\ built = "unbuilt"
  /\ th = [t \in Workers |->
             IF t = 1 THEN [IdleT EXCEPT !.op = "init", !.pc = "load_products"]
             ELSE IdleT]
  /\ fx = <<>> /\ fy = <<>> /\ fpc = "off"

Set(t, r) == th' = [th EXCEPT ![t] = r]

\* an exception leaves the frame: the request (or the import) fails
Raise(t, e) ==
  /\ Set(t, [th[t] EXCEPT !.pc = "raised", !.exc = e])
  /\ built' = IF th[t].op = "init" THEN "crashed" ELSE built

\* --------------------------------------------------------------- _load_all
\* self.products = _load_products_from_url()
LoadProducts(t, resps, files) ==
  /\ th[t].pc = "load_products"
  /\ \E resp \in resps, file \in files :
       IF UrlFalls(resp) /\ LocalRaises(file)
       THEN /\ Set(t, [th[t] EXCEPT !.pc = "raised", !.exc = "JSONDecodeError",
                                    !.failed = TRUE])
            /\ built' = IF th[t].op = "init" THEN "crashed" ELSE built
            /\ UNCHANGED products
       ELSE /\ products' = _load_products_from_url(resp, file)
            /\ Set(t, [th[t] EXCEPT !.pc = "load_combos", !.failed = UrlFalls(resp),
                                    !.L.p = _load_products_from_url(resp, file)])
            /\ UNCHANGED built
  /\ UNCHANGED <<combos, symptoms, index_docs, meta, vectorizer, matrix, 
                 nloads, lastL, lastOk, harness>>

\* self.combos = _load_json_local(LOCAL_COMBOS)
LoadCombos(t, files) ==
  /\ th[t].pc = "load_combos"
  /\ \E file \in files :
       IF LocalRaises(file)
       THEN Raise(t, "JSONDecodeError") /\ UNCHANGED combos
       ELSE /\ combos' = _load_json_local(file)
            /\ Set(t, [th[t] EXCEPT !.pc = "load_symptoms",
                                    !.L.c = _load_json_local(file)])
            /\ UNCHANGED built
  /\ UNCHANGED <<products, symptoms, index_docs, meta, vectorizer, matrix, 
                 nloads, lastL, lastOk, harness>>

\* self.symptoms = _load_json_local(LOCAL_SYMPTOMS)
LoadSymptoms(t, files) ==
  /\ th[t].pc = "load_symptoms"
  /\ \E file \in files :
       IF LocalRaises(file)
       THEN Raise(t, "JSONDecodeError") /\ UNCHANGED symptoms
       ELSE /\ symptoms' = _load_json_local(file)
            /\ Set(t, [th[t] EXCEPT !.pc = "build_products", !.loaded = TRUE,
                                    !.L.s = _load_json_local(file)])
            /\ UNCHANGED built
  /\ UNCHANGED <<products, combos, index_docs, meta, vectorizer, matrix, 
                 nloads, lastL, lastOk, harness>>

\* ---------------------------------------------------------- _build_corpus
\* for p in self.products: docs.append(...); meta.append(...)
BuildProducts(t) ==
  /\ th[t].pc = "build_products"
  /\ IF \E i \in 1..Len(products) : ProductDocRaises(products[i])
     THEN Raise(t, "TypeError")
     ELSE /\ Set(t, [th[t] EXCEPT
                 !.pc = "build_combos",
                 !.docs = [i \in 1..Len(products) |-> ProductDoc(products[i])],
                 !.meta = [i \in 1..Len(products) |-> ProductMeta(products[i])]])
          /\ UNCHANGED built
  /\ UNCHANGED <<shared, nloads, lastL, lastOk, harness>>

\* for c in self.combos: docs.append(...); meta.append(...)
BuildCombos(t) ==
  /\ th[t].pc = "build_combos"
  /\ IF \E i \in 1..Len(combos) : ComboDocRaises(combos[i])
     THEN Raise(t, "TypeError")
     ELSE /\ Set(t, [th[t] EXCEPT
                 !.pc = "build_symptoms",
                 !.docs = @ \o [i \in 1..Len(combos) |-> ComboDoc(combos[i])],
                 !.meta = @ \o [i \in 1..Len(combos) |-> ComboMeta(combos[i])]])
          /\ UNCHANGED built
  /\ UNCHANGED <<shared, nloads, lastL, lastOk, harness>>

\* for s in self.symptoms: docs.append(...); meta.append(...); return docs, meta
BuildSymptoms(t) ==
  /\ th[t].pc = "build_symptoms"
  /\ IF \E i \in 1..Len(symptoms) : SymptomDocRaises(symptoms[i])
     THEN Raise(t, "TypeError")
     ELSE /\ Set(t, [th[t] EXCEPT
                 !.pc = "store_docs",
                 !.docs = @ \o [i \in 1..Len(symptoms) |-> SymptomDoc(symptoms[i])],
                 !.meta = @ \o [i \in 1..Len(symptoms) |-> SymptomMeta(symptoms[i])]])
          /\ UNCHANGED built
  /\ UNCHANGED <<shared, nloads, lastL, lastOk, harness>>

\* self.index_docs, self.meta = ... : the first store of the unpacking
StoreDocs(t) ==
  /\ th[t].pc = "store_docs"
  /\ index_docs' = th[t].docs
  /\ Set(t, [th[t] EXCEPT !.pc = "store_meta"])
  /\ UNCHANGED <<products, combos, symptoms, meta, vectorizer, matrix,
                 built, nloads, lastL, lastOk, harness>>

\* the second store of the unpacking
StoreMeta(t) ==
  /\ th[t].pc = "store_meta"
  /\ meta' = th[t].meta
  /\ Set(t, [th[t] EXCEPT !.pc = "branch"])
  /\ UNCHANGED <<products, combos, symptoms, index_docs, vectorizer, matrix,
                 built, nloads, lastL, lastOk, harness>>

\* if self.index_docs:
Branch(t) ==
  /\ th[t].pc = "branch"
  /\ Set(t, [th[t] EXCEPT !.pc = "store_vec", !.nonEmpty = (index_docs # <<>>)])
  /\ UNCHANGED <<shared, built, nloads, lastL, lastOk, harness>>

\* self.vectorizer = TfidfVectorizer(ngram_range=(1, 2), min_df=1)
StoreVectorizer(t) ==
  /\ th[t].pc = "store_vec"
  /\ vectorizer' = Unfitted
  /\ Set(t, [th[t] EXCEPT !.pc = "fit"])
  /\ UNCHANGED <<products, combos, symptoms, index_docs, meta, matrix,
                 built, nloads, lastL, lastOk, harness>>

\* the documents handed to fit_transform in the branch taken
FitInput(t) == IF th[t].nonEmpty THEN index_docs ELSE << <<>> >>

\* self.vectorizer.fit_transform(...): fits the object self.vectorizer names now
Fit(t) ==
  /\ th[t].pc = "fit"
  /\ IF FitRaises(FitInput(t))
     THEN Raise(t, "ValueError") /\ UNCHANGED vectorizer
     ELSE /\ vectorizer' = Fitted(FitInput(t))
          /\ Set(t, [th[t] EXCEPT !.pc = "store_matrix", !.X = FitMatrix(FitInput(t))])
          /\ UNCHANGED built
  /\ UNCHANGED <<products, combos, symptoms, index_docs, meta, matrix,
                 nloads, lastL, lastOk, harness>>

\* self.matrix = ... ; _load_all returns.  In __init__ the engine is now built
StoreMatrix(t) ==
  /\ th[t].pc = "store_matrix"
  /\ matrix' = th[t].X
  /\ IF th[t].op = "init"
     THEN /\ built' = "ready"
          /\ lastL' = th[t].L /\ lastOk' = TRUE
          /\ Set(t, IdleT)
     ELSE /\ Set(t, [th[t] EXCEPT !.pc = "counts"])
          /\ UNCHANGED <<built, lastL, lastOk>>
  /\ UNCHANGED <<products, combos, symptoms, index_docs, meta, vectorizer,
                 nloads, harness>>

\* ------------------------------------------------------------------ reload
\* POST /admin/reindex with the right token: RAG.reload() begins
BeginReload(t) ==
  /\ built = "ready" /\ th[t].pc = "idle" /\ nloads < MaxReloads
  /\ nloads' = nloads + 1
  /\ lastOk' = FALSE
  /\ Set(t, [IdleT EXCEPT !.op = "reload", !.pc = "load_products"])
  /\ UNCHANGED <<shared, built, lastL, harness>>

\* return {"ok": True, "counts": {...}}
ReloadReturn(t) ==
  /\ th[t].pc = "counts"
  /\ Set(t, [th[t] EXCEPT !.pc = "done",
               !.out = [ok |-> TRUE, products |-> Len(products),
                        combos |-> Len(combos), symptoms |-> Len(symptoms)]])
  /\ lastL' = th[t].L /\ lastOk' = TRUE
  /\ UNCHANGED <<shared, built, nloads, harness>>

\* the caller takes the result (or the error response); the worker is free
Finish(t) ==
  /\ th[t].pc \in {"done", "raised"} /\ th[t].op # "init"
  /\ Set(t, IdleT)
  /\ UNCHANGED <<shared, built, nloads, lastL, lastOk, harness>>

\* ------------------------------------------------------------------ search
Max(a, b) == IF a >= b THEN a ELSE b
Min(a, b) == IF a <= b THEN a ELSE b

\* seq[:stop] with Python's meaning of a negative stop
PySliceTo(seq, stop) ==
  IF stop < 0 THEN SubSeq(seq, 1, Max(0, Len(seq) + stop))
  ELSE SubSeq(seq, 1, Min(stop, Len(seq)))

ReversedNot(seq) == seq

\* seq[::-1]
Reversed(seq) == [i \in 1..Len(seq) |-> seq[Len(seq) + 1 - i]]

\* sims.argsort(): the default sort is not stable, so any ascending order of the
\* positions may come out
Argsorts(sims) ==
  {p \in [1..Len(sims) -> 1..Len(sims)] :
     /\ \A i, j \in 1..Len(sims) : i # j => p[i] # p[j]
     /\ \A i \in 1..(Len(sims) - 1) : sims[p[i]] <= sims[p[i + 1]]}

\* sims.argsort()[::-1][:max(1, topk)]
TopIdxsNoClamp(perm, topk) == PySliceTo(Reversed(perm), topk)

TopIdxs(perm, topk) == PySliceTo(Reversed(perm), Max(1, topk))

\* vectorizer.transform([_norm_text(query)]): the query's terms in the vocabulary
Transform(vec, query) ==
  [vocab |-> vec.vocab, terms |-> Terms(Tokens(NormStr(query))) \cap vec.vocab]

\* cosine_similarity(qv, matrix) raises ValueError: incompatible dimensions
CosineRaises(qv, M) == Cardinality(qv.vocab) # Cardinality(M.vocab)

\* cosine_similarity(qv, matrix)[0].  The weights are positive, so a row scores 0
\* exactly when it shares no term with the query; equal rows score equally; the
\* values themselves are left open (levels 1..MaxScore).  A query vector over
\* another vocabulary of the same size multiplies unrelated columns.
CosineSims(qv, M) ==
  IF qv.vocab = M.vocab
  THEN {[i \in 1..Len(M.rows) |->
           IF qv.terms \cap Terms(M.rows[i]) = {} THEN 0 ELSE f[M.rows[i]]] :
        f \in [{M.rows[i] : i \in 1..Len(M.rows)} -> 1..MaxScore]}
  ELSE [1..Len(M.rows) -> 0..MaxScore]

\* POST /ask -> suggest_for_query -> rag.search(query, topk) begins
BeginSearch(t, queries, topks) ==
  /\ built = "ready" /\ th[t].pc = "idle"
  /\ \E q \in queries, k \in topks :
       Set(t, [IdleT EXCEPT !.op = "search", !.pc = "s_check", !.q = q, !.k = k])
  /\ UNCHANGED <<shared, built, nloads, lastL, lastOk, harness>>

\* if not query.strip(): return [] ; if self.matrix is None or not len(...): return []
SearchCheck(t) ==
  /\ th[t].pc = "s_check"
  /\ IF Strip(th[t].q) = <<>> \/ matrix.isNone \/ Len(index_docs) = 0
     THEN Set(t, [th[t] EXCEPT !.pc = "done", !.out = <<>>])
     ELSE Set(t, [th[t] EXCEPT !.pc = "s_transform"])
  /\ UNCHANGED <<shared, built, nloads, lastL, lastOk, harness>>

\* qv = self.vectorizer.transform([_norm_text(query)])
SearchTransform(t) ==
  /\ th[t].pc = "s_transform"
  /\ IF vectorizer.k # "fitted"
     THEN Raise(t, "NotFittedError")
     ELSE /\ Set(t, [th[t] EXCEPT !.pc = "s_sims",
                                  !.qv = Transform(vectorizer, th[t].q)])
          /\ UNCHANGED built
  /\ UNCHANGED <<shared, nloads, lastL, lastOk, harness>>

\* sims = cosine_similarity(qv, self.matrix)[0]; idxs = sims.argsort()[::-1][:max(1, topk)]
SearchSims(t) ==
  /\ th[t].pc = "s_sims"
  /\ IF CosineRaises(th[t].qv, matrix)
     THEN Raise(t, "ValueError")
     ELSE /\ \E sims \in CosineSims(th[t].qv, matrix) :
               \E perm \in Argsorts(sims) :
                  Set(t, [th[t] EXCEPT !.pc = "s_out", !.M = matrix, !.sims = sims,
                                       !.idxs = TopIdxs(perm, th[t].k)])
          /\ UNCHANGED built
  /\ UNCHANGED <<shared, nloads, lastL, lastOk, harness>>

\* for i in idxs: out.append({"score": float(sims[i]), "meta": self.meta[i]})
SearchOut(t) ==
  /\ th[t].pc = "s_out"
  /\ IF \E j \in 1..Len(th[t].idxs) : th[t].idxs[j] > Len(meta)
     THEN Raise(t, "IndexError")
     ELSE /\ Set(t, [th[t] EXCEPT !.pc = "done", !.ometa = meta,
                 !.out = [j \in 1..Len(th[t].idxs) |->
                            [score |-> th[t].sims[th[t].idxs[j]],
                             meta |-> meta[th[t].idxs[j]]]]])
          /\ UNCHANGED built
  /\ UNCHANGED <<shared, nloads, lastL, lastOk, harness>>

\* ----------------------------------------------------------------- getters
FirstMatchLast(coll, field, key) ==
  LET hits == {i \in 1..Len(coll) : Get(coll[i], field, NoneV) = key}
  IN  IF hits = {} THEN NoneV
      ELSE coll[CHOOSE i \in hits : \A j \in hits : j <= i]

\* next((e for e in coll if e.get(field) == key), None)
FirstMatch(coll, field, key) ==
  LET hits == {i \in 1..Len(coll) : Get(coll[i], field, NoneV) = key}
  IN  IF hits = {} THEN NoneV
      ELSE coll[CHOOSE i \in hits : \A j \in hits : i <= j]

GetDone(t, op, key, res) ==
  Set(t, [IdleT EXCEPT !.op = op, !.pc = "done", !.key = key, !.out = res])

get_product(t) ==
  /\ built = "ready" /\ th[t].pc = "idle"
  /\ \E key \in Keys : GetDone(t, "get_product", key, FirstMatch(products, "sku", key))
  /\ UNCHANGED <<shared, built, nloads, lastL, lastOk, harness>>

get_combo(t) ==
  /\ built = "ready" /\ th[t].pc = "idle"
  /\ \E key \in Keys : GetDone(t, "get_combo", key, FirstMatch(combos, "id", key))
  /\ UNCHANGED <<shared, built, nloads, lastL, lastOk, harness>>

get_symptom(t) ==
  /\ built = "ready" /\ th[t].pc = "idle"
  /\ \E key \in Keys : GetDone(t, "get_symptom", key, FirstMatch(symptoms, "id", key))
  /\ UNCHANGED <<shared, built, nloads, lastL, lastOk, harness>>

\* ------------------------------------------------------------ specifications
Step(t) ==
  \/ BuildProducts(t) \/ BuildCombos(t) \/ BuildSymptoms(t)
  \/ StoreDocs(t) \/ StoreMeta(t) \/ Branch(t) \/ StoreVectorizer(t)
  \/ Fit(t) \/ StoreMatrix(t) \/ ReloadReturn(t)
  \/ SearchCheck(t) \/ SearchTransform(t) \/ SearchSims(t) \/ SearchOut(t)
  \/ Finish(t)

Begin(t, queries, topks) ==
  \/ BeginReload(t) \/ BeginSearch(t, queries, topks)
  \/ get_product(t) \/ get_combo(t) \/ get_symptom(t)

\* the sources while calls overlap: the endpoint answers or fails, the files
\* are present and parse
UrlOverlap == {[k |-> "fail", v |-> <<>>], [k |-> "list", v |-> <<P1b, P1>>]}
ProductFilesOverlap == {[k |-> "list", v |-> <<P1, P2>>]}
ComboFilesOverlap == {[k |-> "list", v |-> <<C1r>>]}
SymptomFilesOverlap == {[k |-> "list", v |-> <<S1>>]}

LoadOverlap(t) ==
  \/ LoadProducts(t, UrlOverlap, ProductFilesOverlap)
  \/ LoadCombos(t, ComboFilesOverlap)
  \/ LoadSymptoms(t, SymptomFilesOverlap)

\* requests served by concurrent threadpool workers
QueriesOverlap == { <<"a", "b">> }
TopkOverlap == {MaxTopk}

Next == \E t \in Workers :
  LoadOverlap(t) \/ Step(t) \/ Begin(t, QueriesOverlap, TopkOverlap)

Spec == Init /\ [][Next]_vars

\* the same engine when no two calls overlap
Load(t) ==
  \/ LoadProducts(t, UrlResponses, LocalFiles(ProductLists))
  \/ LoadCombos(t, LocalFiles(ComboLists))
  \/ LoadSymptoms(t, LocalFiles(SymptomLists))

NextSeq == \E t \in Workers : Load(t) \/ Step(t) \/ (Quiet /\ Begin(t, Queries, TopkInputs))

SpecSeq == Init /\ [][NextSeq]_vars

\* --------------------------------------------- _norm_text applied to inputs
NormAlphabet == {"<", ">", " ", "\t", "a", "A"}
NormInputs == UNION {[1..n -> NormAlphabet] : n \in 0..MaxLen}

HarnessInit ==
  /\ EngineInit
  /\ built = "unbuilt"
  /\ th = [t \in Workers |-> IdleT]
  /\ fy = <<>> /\ fpc = "start"

InitNorm == HarnessInit /\ fx \in NormInputs

\* y1 = _norm_text(s)
NormOnce ==
  /\ fpc = "start"
  /\ fy' = <<_norm_text(Str(fx))>>
  /\ fpc' = "once"
  /\ UNCHANGED <<shared, built, nloads, th, lastL, lastOk, fx>>

\* y2 = _norm_text(y1)
NormTwice ==
  /\ fpc = "once"
  /\ fy' = Append(fy, _norm_text(Str(fy[1])))
  /\ fpc' = "twice"
  /\ UNCHANGED <<shared, built, nloads, th, lastL, lastOk, fx>>

NextNorm == NormOnce \/ NormTwice

SpecNorm == InitNorm /\ [][NextNorm]_vars

\* ------------------------------------- the product branch applied to records
Absent == [t |-> "absent", v |-> <<>>]
SomeText == Str(<<"<", "b", ">", "A", " ", " ", "b", "c">>)
SomeList == Lst(<<Txt("a", "b"), Str(<<"C", " ", "d", "e">>)>>)

\* a dict with the keys whose value is given
Dict(c) == [f \in {g \in DOMAIN c : c[g] # Absent} |-> c[f]]

ProductInputs ==
  {Dict([sku |-> sk, name |-> n, description |-> d, benefits |-> b,
         directions |-> dr, warnings |-> w, tags |-> tg, brand |-> br,
         price_text |-> pt, category_path |-> cp]) :
     sk \in {Absent, Txt("p", "1")},
     n \in {Absent, NoneV, SomeText},
     d \in {Absent, EmptyStr, SomeText},
     b \in {Absent, EmptyLst, SomeList},
     dr \in {Absent, Txt("d", "e")},
     w \in {Absent, Txt("n", "o")},
     tg \in {Absent, NoneV, Txt("a", "b"), SomeList},
     br \in {Absent, Txt("c", "d")},
     pt \in {Absent, Txt("e", "e")},
     cp \in {Absent, EmptyLst, Str(<<"a", "b", " ", ">", " ", "c", "d">>), SomeList}}

InitDoc == HarnessInit /\ fx \in ProductInputs

\* one pass of the product loop of _build_corpus over the record
BuildDoc ==
  /\ fpc = "start"
  /\ fy' = IF ProductDocRaises(fx) THEN [ok |-> FALSE, doc |-> <<>>]
           ELSE [ok |-> TRUE, doc |-> ProductDoc(fx)]
  /\ fpc' = "built"
  /\ UNCHANGED <<shared, built, nloads, th, lastL, lastOk, fx>>

NextDoc == BuildDoc

SpecDoc == InitDoc /\ [][NextDoc]_vars

\* ======================================================================
\* C9: _norm_text is idempotent: normalising a normalised string changes nothing
C9_NormIdempotent == fpc = "twice" => fy[2] = fy[1]

\* a string with a tag, capitals and blank runs has been normalised twice
C9_Witness ==
  /\ fpc = "twice"
  /\ fx = <<"<", "a", ">", "A", "\t">>
  /\ fy = << <<"a">>, <<"a">> >>

\* C10: every product record builds, and its document is the nine normalised
\* fields joined by " | ", the last one being joinList(category_path)
C10_ProductDoc ==
  fpc = "built" =>
    /\ fy.ok
    /\ fy.doc = Join(SEP, << _norm_text(Get(fx, "name", EmptyStr)),
                            _norm_text(Get(fx, "description", EmptyStr)),
                            _join_list(Get(fx, "benefits", EmptyLst)),
                            _norm_text(Get(fx, "directions", EmptyStr)),
                            _norm_text(Get(fx, "warnings", EmptyStr)),
                            _join_list(Get(fx, "tags", EmptyLst)),
                            _norm_text(Get(fx, "brand", EmptyStr)),
                            _norm_text(Get(fx, "price_text", EmptyStr)),
                            _join_list(Get(fx, "category_path", EmptyLst)) >>)

\* ----------------------------------------------- what one load publishes
\* the corpus _build_corpus derives from the collections of load L
DocsOf(L) ==
  [i \in 1..Len(L.p) |-> ProductDoc(L.p[i])]
    \o [i \in 1..Len(L.c) |-> ComboDoc(L.c[i])]
    \o [i \in 1..Len(L.s) |-> SymptomDoc(L.s[i])]

\* the type and key of every entity of load L
TagsOf(L) ==
  {[type |-> "product", id |-> Get(L.p[i], "sku", NoneV)] : i \in 1..Len(L.p)}
    \cup {[type |-> "combo", id |-> Get(L.c[i], "id", NoneV)] : i \in 1..Len(L.c)}
    \cup {[type |-> "symptom", id |-> Get(L.s[i], "id", NoneV)] : i \in 1..Len(L.s)}

\* the published attributes are, all of them, those of load L
PublishedIs(L) ==
  /\ products = L.p /\ combos = L.c /\ symptoms = L.s
  /\ index_docs = DocsOf(L)
  /\ Len(meta) = Len(index_docs)
  /\ \A i \in 1..Len(meta) : meta[i] \in TagsOf(L)
  /\ matrix = FitMatrix(DocsOf(L))
  /\ vectorizer = Fitted(DocsOf(L))

\* the loads that can happen while calls overlap
OverlapLoads ==
  {[p |-> _load_products_from_url(r, f), c |-> _load_json_local(fc),
    s |-> _load_json_local(fs)] :
     r \in UrlOverlap, f \in ProductFilesOverlap,
     fc \in ComboFilesOverlap, fs \in SymptomFilesOverlap}

\* a search that got as far as ranking
Ranked(t) == th[t].op = "search" /\ th[t].pc \in {"s_out", "done"} /\ ~th[t].M.isNone

\* e is the first record of coll whose field equals key, or None when there is none
IsFirstOf(e, coll, field, key) ==
  \/ /\ e = NoneV
     /\ \A i \in 1..Len(coll) : Get(coll[i], field, NoneV) # key
  \/ \E i \in 1..Len(coll) :
       /\ Get(coll[i], field, NoneV) = key
       /\ \A j \in 1..(i - 1) : Get(coll[j], field, NoneV) # key
       /\ e = coll[i]

\* ======================================================================
\* C1: a search that runs while reload() is in progress reads vectorizer,
\* matrix and metadata that all belong to one load, never a combination
C1_SearchSeesOneSnapshot ==
  \A t \in Workers :
    (Ranked(t) /\ th[t].pc = "done") =>
      \E L \in OverlapLoads :
        /\ th[t].qv.vocab = DocsVocab(DocsOf(L))
        /\ th[t].M = FitMatrix(DocsOf(L))
        /\ Len(th[t].ometa) = Len(DocsOf(L))
        /\ \A i \in 1..Len(th[t].ometa) : th[t].ometa[i] \in TagsOf(L)

\* C3: once two reload() calls have both returned and nothing is running, the
\* published attributes are, all of them, those of one of the loads
C3_OverlappingReloadsOneSnapshot ==
  (Quiet /\ built = "ready" /\ lastOk /\ nloads = MaxReloads) =>
    \E L \in OverlapLoads : PublishedIs(L)

\* C4: a reload() whose fetch failed does not raise (otherwise than on a local
\* file that does not parse), returns ok, and leaves the attributes of one load
C4_FetchFailureFallsBack ==
  \A t \in Workers :
    (th[t].op = "reload" /\ th[t].failed) =>
      /\ th[t].pc = "raised" => th[t].exc = "JSONDecodeError"
      /\ th[t].pc = "done" => (th[t].out.ok /\ PublishedIs(th[t].L))

\* C5: a load that yields no products, no combos and no symptoms does not
\* raise, and reload() then returns ok with the three counts 0
C5_EmptyLoadSucceeds ==
  \A t \in Workers :
    (th[t].op \in {"init", "reload"} /\ th[t].loaded /\ th[t].L = NoL) =>
      /\ th[t].pc # "raised"
      /\ th[t].pc = "done" =>
           th[t].out = [ok |-> TRUE, products |-> 0, combos |-> 0, symptoms |-> 0]

\* C2 as claimed: scores are non-increasing by position, a hit comes before any
\* hit of equal score and higher corpus index, and of the documents tied at the
\* cut-off the ones with lower corpus index are the ones returned
C2_TiesLowerIndexFirst ==
  \A t \in Workers :
    Ranked(t) =>
      LET ix == th[t].idxs
          sm == th[t].sims
          chosen == {ix[a] : a \in 1..Len(ix)}
      IN  /\ \A a, b \in 1..Len(ix) :
                a < b => /\ sm[ix[a]] >= sm[ix[b]]
                         /\ sm[ix[a]] = sm[ix[b]] => ix[a] < ix[b]
          /\ \A i \in chosen, j \in (1..Len(sm)) \ chosen :
                sm[i] = sm[j] => i < j

\* C2 amended: scores are non-increasing by position, the hits are distinct
\* documents, and no document left out scores higher than a returned one
C2_RankedByScore ==
  \A t \in Workers :
    Ranked(t) =>
      LET ix == th[t].idxs
          sm == th[t].sims
          chosen == {ix[a] : a \in 1..Len(ix)}
      IN  /\ \A a, b \in 1..Len(ix) : a < b => (sm[ix[a]] >= sm[ix[b]] /\ ix[a] # ix[b])
          /\ \A i \in chosen, j \in (1..Len(sm)) \ chosen : sm[j] <= sm[i]
          /\ th[t].pc = "done" =>
               \A a \in 1..Len(ix) : th[t].out[a].score = sm[ix[a]]

\* a search returned three hits, the first two tied above the third, the tied
\* pair with the higher corpus index first
C2_Witness ==
  \E t \in Workers :
    /\ Ranked(t) /\ th[t].pc = "done" /\ Len(th[t].out) = 3
    /\ th[t].out[1].score = th[t].out[2].score
    /\ th[t].out[2].score > th[t].out[3].score
    /\ th[t].idxs[1] > th[t].idxs[2]

\* C6: after a reload() that returned, every getter returns the first record of
\* the loaded collection with the key (or None), every hit carries the type and
\* key of a loaded entity, and the engine still holds an index
C6_ReloadVisible ==
  /\ built = "ready" => (~matrix.isNone /\ vectorizer.k # "none")
  /\ lastOk =>
       \A t \in Workers :
         th[t].pc = "done" =>
           /\ th[t].op = "get_product" => IsFirstOf(th[t].out, lastL.p, "sku", th[t].key)
           /\ th[t].op = "get_combo" => IsFirstOf(th[t].out, lastL.c, "id", th[t].key)
           /\ th[t].op = "get_symptom" => IsFirstOf(th[t].out, lastL.s, "id", th[t].key)
           /\ th[t].op = "search" =>
                \A j \in 1..Len(th[t].out) : th[t].out[j].meta \in TagsOf(lastL)

\* after a reload that loaded two products with the same sku, get_product
\* returned the first of them
C6_Witness ==
  /\ lastOk /\ nloads >= 1 /\ lastL.p = <<P1b, P1>>
  /\ \E t \in Workers :
       /\ th[t].op = "get_product" /\ th[t].pc = "done"
       /\ th[t].key = Txt("p", "1") /\ th[t].out = P1b

\* C7: on a published snapshot search never faults, returns at most
\* min(max(1, topk), corpus size) hits, and ranks exactly one when topk < 1
C7_TopkClamped ==
  lastOk =>
    \A t \in Workers :
      th[t].op = "search" =>
        /\ th[t].pc # "raised"
        /\ th[t].pc = "done" =>
             Len(th[t].out) <= Min(Max(1, th[t].k), Len(index_docs))
        /\ (Ranked(t) /\ th[t].k < 1) => Len(th[t].idxs) = 1

\* a search with topk = -1 over four documents returned one hit
C7_Witness ==
  /\ lastOk /\ Len(index_docs) = 4
  /\ \E t \in Workers :
       /\ Ranked(t) /\ th[t].pc = "done"
       /\ th[t].k = 0 - 1 /\ Len(th[t].out) = 1

\* C8: after construction and completed reloads, documents and metadata have
\* the length products + combos + symptoms; position i holds the document and
\* the type and key of the i-th entity, products first, then combos, then
\* symptoms; row i of the matrix is made from document i
C8_Aligned ==
  lastOk =>
    LET np == Len(products)
        nc == Len(combos)
        ns == Len(symptoms)
    IN  /\ Len(index_docs) = np + nc + ns
        /\ Len(meta) = np + nc + ns
        /\ \A i \in 1..np :
             /\ meta[i] = [type |-> "product", id |-> Get(products[i], "sku", NoneV)]
             /\ index_docs[i] = ProductDoc(products[i])
        /\ \A i \in 1..nc :
             /\ meta[np + i] = [type |-> "combo", id |-> Get(combos[i], "id", NoneV)]
             /\ index_docs[np + i] = ComboDoc(combos[i])
        /\ \A i \in 1..ns :
             /\ meta[np + nc + i] = [type |-> "symptom", id |-> Get(symptoms[i], "id", NoneV)]
             /\ index_docs[np + nc + i] = SymptomDoc(symptoms[i])
        /\ ~matrix.isNone
        /\ Len(matrix.rows) = np + nc + ns
        /\ \A i \in 1..(np + nc + ns) : matrix.rows[i] = Tokens(index_docs[i])

\* a completed reload published two products, one combo and one symptom
C8_Witness ==
  /\ lastOk /\ nloads >= 1 /\ Quiet
  /\ Len(products) = 2 /\ Len(combos) = 1 /\ Len(symptoms) = 1
  /\ meta[3].type = "combo" /\ meta[4].type = "symptom"

====
